---- MODULE Spec2Model ----
(***************************************************************************)
(* A model of lib/karl.js: the per-level logging methods (_log), their     *)
(* deferred emission through setImmediate, setOptions, the console         *)
(* interceptor (redirectConsole) and the uncaughtException handler.        *)
(*                                                                         *)
(* JavaScript values that may be null or undefined are tagged records, so  *)
(* that values of different types can be compared.  A string is a          *)
(* sequence of tokens, a path a sequence of its components.                *)
(***************************************************************************)
EXTENDS Integers, Sequences, FiniteSets, TLC

VARIABLES
  logOptions,        \* karl.js:122  the active options object
  currentFormatter,  \* karl.js:172  null until the first setOptions
  console,           \* the process-wide console object: method -> function
  defaultConsole,    \* karl.js:389  the saved console functions
  nativeConsole,     \* the console object as it was when the module was loaded
  immediateQueue,    \* the setImmediate queue of the event loop (FIFO)
  stdout,            \* the writes made to process.stdout, oldest first
  calls,             \* history: the invocations of _log, oldest first
  clock,             \* the wall clock read by new Date()
  ops,               \* how many operations of client code and clock ticks so far
  probeSeen,         \* what the last client callback observed when it ran
  dropped,           \* history: the invocations whose deferred task threw
  status,            \* "running", or how the process ended: "SIGINT", "crashed"
  trail,             \* ConsoleSpec only: the redirectConsole calls applied so far
  Error,             \* Error.stackTraceLimit and Error.prepareStackTrace
  activation,        \* CaptureSpec only: the running call of getStackInfo
  heap               \* the objects of client code that logging calls are passed

vars == <<logOptions, currentFormatter, console, defaultConsole, nativeConsole,
          immediateQueue, stdout, calls, clock, ops, probeSeen,
          dropped, status, trail, Error, activation, heap>>

(***************************************************************************)
(* Bounds of the model.                                                    *)
(***************************************************************************)
\* the operations of client code a behaviour may hold: logging and console
\* calls, setOptions calls, throws, deferred callbacks, rebinding of
\* console.log, and the ticks of the clock between them
MaxOps == 3
\* the redirectConsole calls a behaviour of ConsoleSpec may hold
MaxTrail == 4

(***************************************************************************)
(* JavaScript values.                                                      *)
(***************************************************************************)
Null == [type |-> "null"]
Undefined == [type |-> "undefined"]
Str(s) == [type |-> "string", v |-> s]
Num(n) == [type |-> "number", v |-> n]

Truthy(x) ==
  CASE x.type = "null" -> FALSE
    [] x.type = "undefined" -> FALSE
    [] x.type = "string" -> x.v # <<>>
    [] x.type = "number" -> x.v # 0
    [] OTHER -> TRUE

Last(s) == s[Len(s)]
Front(s) == SubSeq(s, 1, Len(s) - 1)
Range(s) == {s[i] : i \in 1..Len(s)}

(***************************************************************************)
(* path.basename, path.dirname and path.relative on absolute paths, a path *)
(* being the sequence of its components.                                   *)
(***************************************************************************)
basename(p) == <<Last(p)>>
dirname(p) == Front(p)

RECURSIVE CommonPrefixLen(_, _)
CommonPrefixLen(a, b) ==
  IF a = <<>> \/ b = <<>> \/ Head(a) # Head(b) THEN 0
  ELSE 1 + CommonPrefixLen(Tail(a), Tail(b))

relative(from, to) ==
  LET n == CommonPrefixLen(from, to)
  IN [i \in 1..(Len(from) - n) |-> ".."] \o SubSeq(to, n + 1, Len(to))

cwd == <<"srv", "app">>

(***************************************************************************)
(* The severity levels and the options.                                    *)
(***************************************************************************)
LOG_LEVELS == <<"TRACE", "DEBUG", "INFO", "WARN", "ERROR", "FATAL">>
Levels == Range(LOG_LEVELS)

defaultLogOptions ==
  [includeLocationInformation |-> TRUE, colorize |-> FALSE,
   redirectConsole |-> TRUE, json |-> TRUE]

\* Reading a property of an options object: undefined when the key is absent.
Enrich(options) ==
  IF "enrich" \in DOMAIN options THEN options.enrich ELSE "undefined"

\* a merge of the passed options into the active configuration
extendActive(first, second) ==
  [k \in DOMAIN first \cup DOMAIN logOptions |->
     IF k \in DOMAIN first THEN first[k] ELSE logOptions[k]]

\* extend(first, second): the keys of first, then the keys of second that
\* first does not own.
extend(first, second) ==
  [k \in DOMAIN first \cup DOMAIN second |->
     IF k \in DOMAIN first THEN first[k] ELSE second[k]]

\* a selection with a third mode, chosen by the humanReadable key
getFormatterHumanReadable(options) ==
  IF "humanReadable" \in DOMAIN options /\ options.humanReadable
  THEN "textFormatter"
  ELSE IF options.json THEN "jsonFormatter" ELSE "textFormatter"

\* karl.js:155-157
getFormatter(options) ==
  IF options.json THEN "jsonFormatter" ELSE "textFormatter"

defaultFormatter == getFormatter(defaultLogOptions)

\* The options objects client code passes to setOptions.  An enrich callback
\* either adds a field to the record ("tag") or throws ("throws").
OptionObjects ==
  { [x \in {} |-> TRUE],
    [redirectConsole |-> FALSE],
    [includeLocationInformation |-> FALSE, json |-> FALSE],
    [enrich |-> "tag"],
    [enrich |-> "throws"],
    [colorize |-> TRUE, redirectConsole |-> FALSE] }

(***************************************************************************)
(* The console object.  A console method is bound to one of: the function  *)
(* the runtime provides, nothing (undefined), karl[level].bind(karl), or a *)
(* function installed by other code.                                       *)
(***************************************************************************)
ConsoleMethods == {"log", "info", "warn", "error", "debug", "trace"}

Native(m) == [kind |-> "native", fn |-> m]
NoFunction == [kind |-> "undefined", fn |-> "undefined"]
Foreign == [kind |-> "foreign", fn |-> "foreign"]
\* karl[level.toLowerCase()].bind(karl), karl.js:405 and karl.js:408
KarlBound(level) == [kind |-> "bound", fn |-> level]

\* The console of the runtime before karl is loaded.  console.debug is absent
\* in the runtimes of 2015 and a function of its own in later ones.
RuntimeConsole(debugFn) ==
  [m \in ConsoleMethods |-> IF m = "debug" THEN debugFn ELSE Native(m)]

RuntimeDebug == {NoFunction, Native("debug")}

\* karl.js:389-396: debug is saved as console.log, the others as themselves.
SaveConsole(con) ==
  [m \in ConsoleMethods |-> IF m = "debug" THEN con["log"] ELSE con[m]]

\* console.log redirected to karl.debug
RedirectTargetLogAsDebug(m) ==
  CASE m = "log" -> "DEBUG"
    [] m = "trace" -> "TRACE"
    [] m = "debug" -> "DEBUG"
    [] m = "info" -> "INFO"
    [] m = "warn" -> "WARN"
    [] m = "error" -> "ERROR"

\* The logger method a console method is redirected to: console.log to
\* karl.info (karl.js:405), console[level] to karl[level] (karl.js:407-409).
RedirectTarget(m) ==
  CASE m = "log" -> "INFO"
    [] m = "trace" -> "TRACE"
    [] m = "debug" -> "DEBUG"
    [] m = "info" -> "INFO"
    [] m = "warn" -> "WARN"
    [] m = "error" -> "ERROR"

\* a reset that leaves out the methods karl adds to the console
RestoredWithoutAdded == {"log", "info", "warn", "error"}

\* the methods redirectConsole rebinds (karl.js:405, 407) and resets (416)
RedirectedMethods == {"log", "trace", "debug", "info", "warn", "error"}
RestoredMethods == {"trace", "debug", "log", "info", "warn", "error"}

\* redirectConsole with the guard of its reset the wrong way round
redirectConsoleGuardInverted(enable, st) ==
  IF enable
  THEN IF st.console["log"] = st.defaultConsole["log"]
       THEN [st EXCEPT !.console =
               [m \in ConsoleMethods |-> KarlBound(RedirectTarget(m))]]
       ELSE st
  ELSE IF st.console["log"] = st.defaultConsole["log"]
       THEN [st EXCEPT !.console =
               [m \in ConsoleMethods |-> st.defaultConsole[m]]]
       ELSE st

\* redirectConsole saving the console at the moment it redirects it
redirectConsoleSaving(enable, st) ==
  IF enable
  THEN [console |-> [m \in ConsoleMethods |-> KarlBound(RedirectTarget(m))],
        defaultConsole |-> SaveConsole(st.console)]
  ELSE IF st.console["log"] # st.defaultConsole["log"]
       THEN [st EXCEPT !.console =
               [m \in ConsoleMethods |-> st.defaultConsole[m]]]
       ELSE st

\* redirectConsole telling its state by whether console.log is the binding
\* it installed itself
redirectConsoleByOwnBinding(enable, st) ==
  IF enable
  THEN IF st.console["log"].kind # "bound"
       THEN [st EXCEPT !.console =
               [m \in ConsoleMethods |-> KarlBound(RedirectTarget(m))]]
       ELSE st
  ELSE IF st.console["log"].kind = "bound"
       THEN [st EXCEPT !.console =
               [m \in ConsoleMethods |-> st.defaultConsole[m]]]
       ELSE st

\* redirectConsole(enable), karl.js:399-421, on the pair of the console and
\* the saved console.
redirectConsole(enable, st) ==
  IF enable
  THEN IF st.console["log"] = st.defaultConsole["log"]
       THEN [st EXCEPT !.console =
               [m \in ConsoleMethods |->
                  IF m \in RedirectedMethods THEN KarlBound(RedirectTarget(m))
                  ELSE st.console[m]]]
       ELSE st
  ELSE IF st.console["log"] # st.defaultConsole["log"]
       THEN [st EXCEPT !.console =
               [m \in ConsoleMethods |->
                  IF m \in RestoredMethods THEN st.defaultConsole[m]
                  ELSE st.console[m]]]
       ELSE st

\* The state of the interceptor as redirectConsole infers it.
Redirected == console["log"] # defaultConsole["log"]

(***************************************************************************)
(* Call stacks and call-site capture.  A stack is the sequence of its      *)
(* frames, the oldest first; a frame is a CallSite object.                 *)
(***************************************************************************)
Frame(file, line, fn) ==
  [getFileName |-> file, getLineNumber |-> line, getFunctionName |-> fn]

KarlFile == <<"srv", "app", "node_modules", "karl", "lib", "karl.js">>
\* the frame of _log while it runs (karl.js:348)
LogFrame == Frame(Str(KarlFile), Num(349), Str(<<"_log">>))
\* the frame of the uncaughtException listener (karl.js:448)
HandlerFrame == Frame(Str(KarlFile), Num(449), Null)
\* the frame a function that is not a bound function adds when it forwards
WrapperFrame == Frame(Str(KarlFile), Num(405), Str(<<"wrapper">>))

fMain == Frame(Str(<<"srv", "app", "lib", "main.js">>), Num(10), Str(<<"main">>))
fAnon == Frame(Str(<<"srv", "app", "worker.js">>), Num(20), Null)
fRoute == Frame(Str(<<"srv", "app", "routes", "index.js">>), Num(30), Str(<<"route">>))

dummyTrace == Frame(Null, Null, Null)

SetMax(S) == CHOOSE x \in S : \A y \in S : y <= x
Min(a, b) == IF a < b THEN a ELSE b

\* Error.captureStackTrace(obj, limFn) with Error.stackTraceLimit = limit:
\* the frames below the topmost call of limFn, the newest first, at most limit.
captureStackTrace(stack, limFn, limit) ==
  LET at == {i \in 1..Len(stack) : stack[i] = limFn}
      top == IF at = {} THEN Len(stack) ELSE SetMax(at) - 1
  IN [i \in 1..Min(limit, top) |-> stack[top - i + 1]]

\* The process-wide configuration of stack traces as node starts with it,
\* and a prepareStackTrace other code may have installed.
ErrorAtStart == [stackTraceLimit |-> Num(10), prepareStackTrace |-> Undefined]
UserPrepare == [type |-> "function", v |-> "prepareStackTrace of other code"]
\* the function getStackInfo installs (karl.js:241-243)
KarlPrepare == [type |-> "function", v |-> "karl.js:241"]

\* No call of getStackInfo is running, none has run.
NoActivation ==
  [pc |-> "idle", stack |-> <<>>, limFn |-> Null, frames |-> <<>>,
   saveLimit |-> Null, savePrepare |-> Null, stackInfo |-> Null,
   entry |-> ErrorAtStart, count |-> 0]

\* a capture that does not skip the frames from limFn up
getStackInfoOfEntry(stack, limFn) == Last(stack)

\* getStackInfo(limFn), karl.js:226-254: stack[0] of a capture of one frame.
getStackInfo(stack, limFn) ==
  LET captured == captureStackTrace(stack, limFn, 1)
  IN IF captured = <<>> THEN Undefined ELSE captured[1]

\* a console method redirected through a function that forwards the call
WrapperFrames(binding) == <<WrapperFrame>>

\* The frames a console binding adds between its caller and _log: a bound
\* function runs its target without a frame of its own.
BindingFrames(binding) ==
  IF binding.kind = "bound" THEN <<>> ELSE <<WrapperFrame>>

(***************************************************************************)
(* util.format and Date.prototype.toISOString.                             *)
(***************************************************************************)
Digit(d) == <<"0", "1", "2", "3", "4", "5", "6", "7", "8", "9">>[d + 1]

RECURSIVE Decimal(_)
Decimal(n) == IF n < 10 THEN <<Digit(n)>> ELSE Decimal(n \div 10) \o <<Digit(n % 10)>>

\* An object of client code is passed by reference: the argument is the
\* name of the object, the heap holds its properties.  (The README logs
\* someObject = { a: 1, b: { c: "Owkay" } }.)
Ref(name) == [type |-> "object", ref |-> name]
HeapAtStart == [someObject |-> [a |-> 1]]

\* util.inspect(object)
inspect(object) ==
  <<"{ a: ">> \o Decimal(object.a) \o <<", b: { c: 'Owkay' } }">>

\* an argument rendered from the properties its object had at load
ToTextOfCopy(x) ==
  CASE x.type = "string" -> x.v
    [] x.type = "number" -> Decimal(x.v)
    [] x.type = "null" -> <<"null">>
    [] x.type = "object" -> inspect(HeapAtStart[x.ref])
    [] OTHER -> <<"undefined">>

\* String(x), as util.format renders an argument that has no placeholder
\* (strings as they are, other values through util.inspect, an object as
\* it is when it is rendered).
ToText(x) ==
  CASE x.type = "string" -> x.v
    [] x.type = "number" -> Decimal(x.v)
    [] x.type = "null" -> <<"null">>
    [] x.type = "object" -> inspect(heap[x.ref])
    [] OTHER -> <<"undefined">>

\* %d renders Number(x).
ToNumberText(x) ==
  CASE x.type = "number" -> Decimal(x.v)
    [] x.type = "null" -> <<"0">>
    [] OTHER -> <<"NaN">>

Placeholders == {"%d", "%s"}

RECURSIVE Substitute(_, _)
\* (t and a are the values of tokens and args, each worked out once)
Substitute(tokens, args) ==
  CHOOSE text \in
    { IF t = <<>>
      THEN IF a = <<>> THEN <<>>
           ELSE <<" ">> \o ToText(Head(a)) \o Substitute(t, Tail(a))
      ELSE IF Head(t) \in Placeholders /\ a # <<>>
           THEN (IF Head(t) = "%d" THEN ToNumberText(Head(a))
                 ELSE ToText(Head(a)))
                \o Substitute(Tail(t), Tail(a))
           ELSE <<Head(t)>> \o Substitute(Tail(t), a)
      : t \in {tokens}, a \in {args} } : TRUE

\* util.format.apply(util, parameters) for a first argument that is a string
format(parameters) ==
  IF parameters = <<>> THEN <<>>
  ELSE Substitute(Head(parameters).v, Tail(parameters))

\* new Date(t).toISOString() for t milliseconds after the epoch, t < 1000
toISOString(t) ==
  <<"1970-01-01T00:00:00.">>
  \o (IF t < 10 THEN <<"0", "0">> ELSE IF t < 100 THEN <<"0">> ELSE <<>>)
  \o Decimal(t) \o <<"Z">>

(***************************************************************************)
(* The event record and its rendering (karl.js:355-383).                   *)
(***************************************************************************)
pid == 4242
applicationName == <<"app">>
hostname == <<"host">>
Anonymous == Str(<<"<anonymous>">>)

\* the mapping the README and the JSDoc of setOptions describe
logColorsOfReadme ==
  [TRACE |-> "defaultTextColor", DEBUG |-> "defaultTextColor",
   INFO |-> "defaultTextColor", WARN |-> "yellow", ERROR |-> "red",
   FATAL |-> "red"]

logColors ==
  [TRACE |-> "green", DEBUG |-> "defaultTextColor", INFO |-> "defaultTextColor",
   WARN |-> "yellow", ERROR |-> "red", FATAL |-> "red"]

\* util.inspect.colors, as colors._colorize reads it (karl.js:91-96): the
\* escape sequence that opens a colour and the one that closes it
inspectColors ==
  [green |-> <<"ESC[32m", "ESC[39m">>,
   yellow |-> <<"ESC[33m", "ESC[39m">>,
   red |-> <<"ESC[31m", "ESC[39m">>]

Escapes == UNION {Range(inspectColors[c]) : c \in DOMAIN inspectColors}

\* a colour that closes before the newline that ends the string
colorizeLine(msg, color) ==
  IF color = "defaultTextColor" THEN msg
  ELSE <<inspectColors[color][1]>> \o Front(msg) \o <<inspectColors[color][2]>>
       \o <<Last(msg)>>

\* colors[color](msg), karl.js:90-103; msg is a sequence of tokens
colorize(msg, color) ==
  IF color = "defaultTextColor" THEN msg
  ELSE <<inspectColors[color][1]>> \o msg \o <<inspectColors[color][2]>>

\* the record with the function name as the frame gives it
BuildMessageWithoutSentinel(task) ==
  LET caller == task.trace
      fn == caller.getFileName
  IN [timestamp |-> Str(toISOString(task.timestamp)),
      level |-> task.level,
      hostName |-> Str(hostname),
      process |-> [name |-> Str(applicationName), pid |-> Num(pid)],
      message |-> Str(format(task.parameters)),
      fileName |-> IF Truthy(fn) THEN Str(basename(fn.v)) ELSE fn,
      filePath |-> IF Truthy(fn) THEN Str(relative(cwd, dirname(fn.v))) ELSE fn,
      lineNumber |-> caller.getLineNumber,
      functionName |-> caller.getFunctionName,
      added |-> <<>>]

\* the record stamped when the deferred task runs
BuildMessageAtEmission(task) ==
  LET caller == task.trace
      fn == caller.getFileName
  IN [timestamp |-> Str(toISOString(clock)),
      level |-> task.level,
      hostName |-> Str(hostname),
      process |-> [name |-> Str(applicationName), pid |-> Num(pid)],
      message |-> Str(format(task.parameters)),
      fileName |-> IF Truthy(fn) THEN Str(basename(fn.v)) ELSE fn,
      filePath |-> IF Truthy(fn) THEN Str(relative(cwd, dirname(fn.v))) ELSE fn,
      lineNumber |-> caller.getLineNumber,
      functionName |-> IF Truthy(caller.getFunctionName)
                       THEN caller.getFunctionName ELSE Anonymous,
      added |-> <<>>]

\* the record with the process named after the file of the caller
BuildMessageNamedByCaller(task) ==
  LET caller == task.trace
      fn == caller.getFileName
  IN [timestamp |-> Str(toISOString(task.timestamp)),
      level |-> task.level,
      hostName |-> Str(hostname),
      process |-> [name |-> IF Truthy(fn) THEN Str(basename(fn.v)) ELSE fn,
                   pid |-> Num(pid)],
      message |-> Str(format(task.parameters)),
      fileName |-> IF Truthy(fn) THEN Str(basename(fn.v)) ELSE fn,
      filePath |-> IF Truthy(fn) THEN Str(relative(cwd, dirname(fn.v))) ELSE fn,
      lineNumber |-> caller.getLineNumber,
      functionName |-> IF Truthy(caller.getFunctionName)
                       THEN caller.getFunctionName ELSE Anonymous,
      added |-> <<>>]

\* karl.js:356-372
BuildMessage(task) ==
  LET caller == task.trace
      fn == caller.getFileName
  IN [timestamp |-> Str(toISOString(task.timestamp)),
      level |-> task.level,
      hostName |-> Str(hostname),
      process |-> [name |-> Str(applicationName), pid |-> Num(pid)],
      message |-> Str(format(task.parameters)),
      fileName |-> IF Truthy(fn) THEN Str(basename(fn.v)) ELSE fn,
      filePath |-> IF Truthy(fn) THEN Str(relative(cwd, dirname(fn.v))) ELSE fn,
      lineNumber |-> caller.getLineNumber,
      functionName |-> IF Truthy(caller.getFunctionName)
                       THEN caller.getFunctionName ELSE Anonymous,
      added |-> <<>>]

\* karl.js:374-376 with an enrich callback that adds a field
ApplyEnrich(message, options) ==
  IF Enrich(options) = "tag"
  THEN [message EXCEPT !.added = <<[key |-> "requestId", value |-> Str(<<"r1">>)]>>]
  ELSE message

\* the record rendered by the formatter configured when the task runs
RenderingByActiveFormatter(task, options) ==
  [formatter |-> getFormatter(options),
   layout |-> IF getFormatter(options) = "jsonFormatter" THEN "json"
              ELSE IF options.includeLocationInformation THEN "long" ELSE "short",
   color |-> IF options.colorize THEN logColors[task.level] ELSE "none"]

\* karl.js:377-381: which formatter and layout render the record, and the
\* colour that wraps it.  textFormatter reads logOptions (karl.js:138).
Rendering(task, options) ==
  [formatter |-> task.format,
   layout |-> IF task.format = "jsonFormatter" THEN "json"
              ELSE IF options.includeLocationInformation THEN "long" ELSE "short",
   color |-> IF options.colorize THEN logColors[task.level] ELSE "none"]

\* a serializer that writes every character of a string as it is
JsonRaw(token) == token

\* JSON.stringify, on strings kept as tokens: a line feed and an escape
\* character are written as the two-character sequences of JSON, every other
\* token as it is.
JsonEscape(token) ==
  CASE token = "\n" -> "\\n"
    [] token \in Escapes -> "\\u001b[..m"
    [] OTHER -> token

JsonString(s) == <<"\"">> \o [i \in 1..Len(s) |-> JsonEscape(s[i])] \o <<"\"">>

Obj(members) == [type |-> "object", members |-> members]
Member(key, value) == [key |-> key, value |-> value]

RECURSIVE JsonValue(_)
RECURSIVE JsonMembers(_)
\* the members whose value is not undefined, a comma before each
\* (ms and y are the values of members and x, each worked out once)
JsonMembers(members) ==
  CHOOSE text \in
    { IF ms = <<>> THEN <<>>
      ELSE (IF Head(ms).value.type = "undefined" THEN <<>>
            ELSE <<",">> \o JsonString(<<Head(ms).key>>) \o <<":">>
                 \o JsonValue(Head(ms).value))
           \o JsonMembers(Tail(ms))
      : ms \in {members} } : TRUE

\* (no comma before the first member)
JsonValue(x) ==
  CHOOSE text \in
    { CASE y.type = "string" -> JsonString(y.v)
        [] y.type = "number" -> Decimal(y.v)
        [] y.type = "null" -> <<"null">>
        [] y.type = "object" ->
             IF \A i \in 1..Len(y.members) : y.members[i].value.type = "undefined"
             THEN <<"{", "}">>
             ELSE <<"{">> \o Tail(JsonMembers(y.members)) \o <<"}">>
      : y \in {x} } : TRUE

\* The record as an object, its keys in the order karl.js:359-372 writes
\* them, those added by enrich last.
MessageObject(message) ==
  Obj(<<Member("timestamp", message.timestamp),
        Member("level", Str(<<message.level>>)),
        Member("hostName", message.hostName),
        Member("process", Obj(<<Member("name", message.process.name),
                                Member("pid", message.process.pid)>>)),
        Member("message", message.message),
        Member("fileName", message.fileName),
        Member("filePath", message.filePath),
        Member("lineNumber", message.lineNumber),
        Member("functionName", message.functionName)>>
      \o [i \in 1..Len(message.added) |->
            Member(message.added[i].key, message.added[i].value)])

\* karl.js:132-134
jsonFormatter(message) == JsonValue(MessageObject(message))

\* karl.js:137-148: the layout is chosen by the options in force when the
\* record is formatted.
textFormatter(message, options) ==
  IF options.includeLocationInformation
  THEN format(<<Str(<<"[", "%s", "] ", "%s", " - ", "%s", " - ", "%s", "[",
                      "%s", "@", "%s", "/", "%s", "(", "%d", ")]: ", "%s">>),
                Str(<<message.level>>), message.timestamp, message.hostName,
                message.process.name, message.functionName, message.filePath,
                message.fileName, message.lineNumber, message.message>>)
  ELSE format(<<Str(<<"[", "%s", "] ", "%s", " - ", "%s", " - ", "%s", ": ",
                      "%s">>),
                Str(<<message.level>>), message.timestamp, message.hostName,
                message.process.name, message.message>>)

\* the record formatted as assembled, before enrich has seen it
FormattedBeforeEnrich(task, options) ==
  IF task.format = "jsonFormatter" THEN jsonFormatter(BuildMessage(task))
  ELSE textFormatter(BuildMessage(task), options)

\* karl.js:374-377: format(message) of the enriched record, format being the
\* formatter _log captured.
Formatted(task, options) ==
  LET message == ApplyEnrich(BuildMessage(task), options)
  IN IF task.format = "jsonFormatter" THEN jsonFormatter(message)
     ELSE textFormatter(message, options)

\* a string wrapped in its colour whatever options.colorize says
TextAlwaysColorized(task, options) ==
  colorize(Formatted(task, options) \o <<"\n">>, logColors[task.level])

\* karl.js:377-381: the string written, as tokens: the formatted record,
\* the newline, and the escape sequences of the colour around them.
Text(task, options) ==
  LET msg == Formatted(task, options) \o <<"\n">>
  IN IF options.colorize THEN colorize(msg, logColors[task.level]) ELSE msg

\* a write made under the options in force when the method was called
KarlWriteUnderOptionsOfCall(task, options) ==
  [src |-> "karl", id |-> task.id, at |-> clock,
   event |-> ApplyEnrich(BuildMessage(task), calls[task.id].options),
   render |-> Rendering(task, calls[task.id].options),
   text |-> Text(task, calls[task.id].options)]

\* The write of the deferred task of _log (karl.js:383); at is the time
\* stdout receives it.
KarlWrite(task, options) ==
  [src |-> "karl", id |-> task.id, at |-> clock,
   event |-> ApplyEnrich(BuildMessage(task), options),
   render |-> Rendering(task, options),
   text |-> Text(task, options)]

\* The write of the runtime's own console.log, console.info and console.debug
NativeWrite(parameters) ==
  [src |-> "console", id |-> 0, at |-> clock,
   event |-> [message |-> Str(format(parameters))],
   render |-> [formatter |-> "console", layout |-> "plain", color |-> "none"],
   text |-> format(parameters) \o <<"\n">>]

NativeToStdout == {"log", "info", "debug"}

(***************************************************************************)
(* Client code: the places logging calls are issued from, and the values   *)
(* it may throw.                                                           *)
(***************************************************************************)
\* (the tests call karl.info("test"), the benchmark "Created queue %d.")
InMain == [stack |-> <<fMain>>, parameters |-> <<Str(<<"test">>)>>]
InWorker ==
  [stack |-> <<fMain, fAnon>>,
   parameters |-> <<Str(<<"Created queue ", "%d", ".">>), Num(3)>>]
InRoute == [stack |-> <<fMain, fRoute>>, parameters |-> <<Str(<<"test">>)>>]
\* (the README calls karl.info("someObject", someObject))
WithObject ==
  [stack |-> <<fMain>>,
   parameters |-> <<Str(<<"someObject">>), Ref("someObject")>>]
\* no JavaScript frame below the call: the method is handed to the runtime
\* as a callback and called by it
ByRuntime == [stack |-> <<>>, parameters |-> <<Str(<<"test">>)>>]

\* The logging calls of client code: every method, each from one place, and
\* info also as a callback.
KarlSites ==
  { [level |-> "TRACE", place |-> InMain],
    [level |-> "DEBUG", place |-> InWorker],
    [level |-> "INFO", place |-> InMain],
    [level |-> "INFO", place |-> ByRuntime],
    [level |-> "WARN", place |-> InWorker],
    [level |-> "ERROR", place |-> InMain],
    [level |-> "FATAL", place |-> InWorker] }

\* Its console calls: every console method, each from one place.
ConsoleSites ==
  { [method |-> "trace", place |-> InMain],
    [method |-> "debug", place |-> InWorker],
    [method |-> "info", place |-> ByRuntime],
    [method |-> "log", place |-> InRoute],
    [method |-> "warn", place |-> InWorker],
    [method |-> "error", place |-> InRoute] }

ErrorObject(name) ==
  [type |-> "error", stack |-> Str(<<name, "\n", "    at main">>)]

ThrownValues == {ErrorObject("Error: boom"), Str(<<"boom">>), Null}

\* err.stack (karl.js:449): undefined on a value that is not an Error
StackOf(err) == IF err.type = "error" THEN err.stack ELSE Undefined

(***************************************************************************)
(* _log, the handler of uncaughtException, and the tasks they schedule.    *)
(***************************************************************************)
KillTask == [type |-> "kill"]
ProbeTask(n) == [type |-> "probe", issued |-> n]

\* _log resolving the call-site whatever includeLocationInformation is
LogTaskAlwaysResolving(level, stack, parameters, id) ==
  [type |-> "log", id |-> id, level |-> level,
   trace |-> getStackInfo(stack \o <<LogFrame>>, LogFrame),
   timestamp |-> clock,
   format |-> IF currentFormatter # "null" THEN currentFormatter
              ELSE defaultFormatter,
   parameters |-> parameters]

\* karl.js:349-353: what _log captures before it defers.  stack is the call
\* stack below _log.
LogTask(level, stack, parameters, id) ==
  [type |-> "log", id |-> id, level |-> level,
   trace |-> IF logOptions.includeLocationInformation
             THEN getStackInfo(stack \o <<LogFrame>>, LogFrame)
             ELSE dummyTrace,
   timestamp |-> clock,
   format |-> IF currentFormatter # "null" THEN currentFormatter
              ELSE defaultFormatter,
   parameters |-> parameters]

\* What the history keeps of an invocation of _log: its arguments, the
\* call stack below it, the time and the options in force.
Invocation(level, stack, parameters) ==
  [level |-> level, stack |-> stack, parameters |-> parameters,
   timestamp |-> clock, options |-> logOptions, heap |-> heap]

\* _log with its task put at the head of the queue instead of the tail
LogAtHead(level, stack, parameters, q, c, out) ==
  [queue |-> <<LogTask(level, stack, parameters, Len(c) + 1)>> \o q,
   calls |-> Append(c, Invocation(level, stack, parameters)),
   out |-> out]

\* _log with a threshold that lets TRACE and DEBUG through to no task
LogAboveDebug(level, stack, parameters, q, c, out) ==
  [queue |-> IF level \in {"TRACE", "DEBUG"} THEN q
             ELSE Append(q, LogTask(level, stack, parameters, Len(c) + 1)),
   calls |-> Append(c, Invocation(level, stack, parameters)),
   out |-> out]

\* _log reached twice by one call, as through a binding wrapped twice
LogTwice(level, stack, parameters, q, c, out) ==
  [queue |-> Append(Append(q, LogTask(level, stack, parameters, Len(c) + 1)),
                    LogTask(level, stack, parameters, Len(c) + 1)),
   calls |-> Append(c, Invocation(level, stack, parameters)),
   out |-> out]

\* _log writing the event itself, before it returns, as well as deferring it
LogWritesAtOnce(level, stack, parameters, q, c, out) ==
  LET task == LogTask(level, stack, parameters, Len(c) + 1)
  IN [queue |-> Append(q, task),
      calls |-> Append(c, Invocation(level, stack, parameters)),
      out |-> IF task.trace = Undefined THEN out
              ELSE Append(out, KarlWrite(task, logOptions))]

\* karl.js:348-385: _log schedules one task and writes nothing itself.  q, c
\* and out are the queue, the history of invocations and the writes made to
\* stdout that it is applied to.
Log(level, stack, parameters, q, c, out) ==
  [queue |-> Append(q, LogTask(level, stack, parameters, Len(c) + 1)),
   calls |-> Append(c, Invocation(level, stack, parameters)),
   out |-> out]

\* a listener whose kill runs ahead of the tasks already queued, as one
\* scheduled with process.nextTick would
uncaughtExceptionKillingFirst(err, q, c, out) ==
  IF err.type \in {"null", "undefined"}
  THEN [crash |-> TRUE, queue |-> q, calls |-> c, out |-> out]
  ELSE LET r == Log("FATAL", <<HandlerFrame>>,
                    <<Str(<<"UncaughtException: ">>), StackOf(err)>>, q, c, out)
       IN [crash |-> FALSE, queue |-> <<KillTask>> \o r.queue,
           calls |-> r.calls, out |-> r.out]

\* karl.js:448-453: the listener of uncaughtException.  Reading err.stack of
\* null or undefined throws inside the listener, which ends the process.
uncaughtException(err, q, c, out) ==
  IF err.type \in {"null", "undefined"}
  THEN [crash |-> TRUE, queue |-> q, calls |-> c, out |-> out]
  ELSE LET r == Log("FATAL", <<HandlerFrame>>,
                    <<Str(<<"UncaughtException: ">>), StackOf(err)>>, q, c, out)
       IN [crash |-> FALSE, queue |-> Append(r.queue, KillTask),
           calls |-> r.calls, out |-> r.out]

\* An error nothing catches reaches the listener; q is the queue it finds.
Raise(err, q) ==
  LET r == uncaughtException(err, q, calls, stdout)
  IN /\ immediateQueue' = r.queue
     /\ calls' = r.calls
     /\ stdout' = r.out
     /\ status' = IF r.crash THEN "crashed" ELSE status

(***************************************************************************)
(* The operations.                                                         *)
(***************************************************************************)
Running == status = "running"

\* karl.trace, karl.debug, karl.info, karl.warn, karl.error, karl.fatal
LogCall(level, place) ==
  /\ Running /\ ops < MaxOps
  /\ LET r == Log(level, place.stack, place.parameters, immediateQueue, calls,
                  stdout)
     IN immediateQueue' = r.queue /\ calls' = r.calls /\ stdout' = r.out
  /\ ops' = ops + 1
  /\ UNCHANGED <<Error, activation, heap, logOptions, currentFormatter, console, defaultConsole,
                 nativeConsole, clock, probeSeen, dropped, status, trail>>

\* a console of the runtime that lets the oldest pending logger event be
\* written before its own line
ConsoleCallBehindPending(m, place) ==
  /\ Running /\ ops < MaxOps
  /\ ops' = ops + 1
  /\ LET b == console[m]
         waits == /\ immediateQueue # <<>>
                  /\ Head(immediateQueue).type = "log"
                  /\ Head(immediateQueue).trace # Undefined
                  /\ Enrich(logOptions) # "throws"
     IN CASE b.kind = "bound" ->
               LET r == Log(b.fn, place.stack \o BindingFrames(b),
                            place.parameters, immediateQueue, calls, stdout)
               IN /\ immediateQueue' = r.queue /\ calls' = r.calls
                  /\ stdout' = r.out
                  /\ UNCHANGED status
          [] b.kind = "native" ->
               /\ stdout' =
                    IF b.fn \in NativeToStdout
                    THEN Append(IF waits
                                THEN Append(stdout,
                                       KarlWrite(Head(immediateQueue), logOptions))
                                ELSE stdout,
                                NativeWrite(place.parameters))
                    ELSE stdout
               /\ immediateQueue' =
                    IF b.fn \in NativeToStdout /\ waits
                    THEN Tail(immediateQueue) ELSE immediateQueue
               /\ UNCHANGED <<calls, status>>
          [] b.kind = "undefined" ->
               Raise(ErrorObject("TypeError: console.debug is not a function"),
                     immediateQueue)
          [] OTHER -> UNCHANGED <<immediateQueue, calls, stdout, status>>
  /\ UNCHANGED <<Error, activation, heap, logOptions, currentFormatter, console, defaultConsole,
                 nativeConsole, clock, probeSeen, dropped, trail>>

\* console.log, console.info, ... as currently bound
ConsoleCall(m, place) ==
  /\ Running /\ ops < MaxOps
  /\ ops' = ops + 1
  /\ LET b == console[m]
     IN CASE b.kind = "bound" ->
               LET r == Log(b.fn, place.stack \o BindingFrames(b),
                            place.parameters, immediateQueue, calls, stdout)
               IN /\ immediateQueue' = r.queue /\ calls' = r.calls
                  /\ stdout' = r.out
                  /\ UNCHANGED status
          [] b.kind = "native" ->
               /\ stdout' = IF b.fn \in NativeToStdout
                            THEN Append(stdout, NativeWrite(place.parameters))
                            ELSE stdout
               /\ UNCHANGED <<immediateQueue, calls, status>>
          [] b.kind = "undefined" ->
               Raise(ErrorObject("TypeError: console.debug is not a function"),
                     immediateQueue)
          [] OTHER -> UNCHANGED <<immediateQueue, calls, stdout, status>>
  /\ UNCHANGED <<Error, activation, heap, logOptions, currentFormatter, console, defaultConsole,
                 nativeConsole, clock, probeSeen, dropped, trail>>

\* a setOptions that discards the tasks still pending
SetOptionsDroppingPending(options) ==
  /\ Running /\ ops < MaxOps
  /\ ops' = ops + 1
  /\ logOptions' = extend(options, defaultLogOptions)
  /\ LET st == redirectConsole(logOptions'.redirectConsole,
                     [console |-> console, defaultConsole |-> defaultConsole])
     IN console' = st.console /\ defaultConsole' = st.defaultConsole
  /\ currentFormatter' = getFormatter(logOptions')
  /\ immediateQueue' = <<>>
  /\ UNCHANGED <<Error, activation, heap, nativeConsole, stdout, calls, clock,
                 probeSeen, dropped, status, trail>>

\* karl.js:441-445
SetOptions(options) ==
  /\ Running /\ ops < MaxOps
  /\ ops' = ops + 1
  /\ logOptions' = extend(options, defaultLogOptions)
  /\ LET st == redirectConsole(logOptions'.redirectConsole,
                     [console |-> console, defaultConsole |-> defaultConsole])
     IN console' = st.console /\ defaultConsole' = st.defaultConsole
  /\ currentFormatter' = getFormatter(logOptions')
  /\ UNCHANGED <<Error, activation, heap, nativeConsole, immediateQueue, stdout, calls, clock,
                 probeSeen, dropped, status, trail>>

\* Other code of the process replaces console.log.
RebindConsole ==
  /\ Running /\ ops < MaxOps /\ console["log"] # Foreign
  /\ ops' = ops + 1
  /\ console' = [console EXCEPT !["log"] = Foreign]
  /\ UNCHANGED <<Error, activation, heap, logOptions, currentFormatter, defaultConsole, nativeConsole,
                 immediateQueue, stdout, calls, clock, probeSeen, dropped,
                 status, trail>>

Tick ==
  /\ Running /\ ops < MaxOps
  /\ ops' = ops + 1
  /\ clock' = clock + 1
  /\ UNCHANGED <<Error, activation, heap, logOptions, currentFormatter, console, defaultConsole,
                 nativeConsole, immediateQueue, stdout, calls, probeSeen,
                 dropped, status, trail>>

\* Code outside karl throws and nothing catches it.
Throw(err) ==
  /\ Running /\ ops < MaxOps
  /\ ops' = ops + 1
  /\ Raise(err, immediateQueue)
  /\ UNCHANGED <<Error, activation, heap, logOptions, currentFormatter, console, defaultConsole,
                 nativeConsole, clock, probeSeen, dropped, trail>>

\* Client code defers a callback of its own with setImmediate, as the tests
\* do after a logging call.
ScheduleProbe ==
  /\ Running /\ ops < MaxOps
  /\ ops' = ops + 1
  /\ immediateQueue' = Append(immediateQueue, ProbeTask(Len(calls)))
  /\ UNCHANGED <<Error, activation, heap, logOptions, currentFormatter, console, defaultConsole,
                 nativeConsole, stdout, calls, clock, probeSeen, dropped,
                 status, trail>>

\* the deferred task writing its line twice
EmitTwice(task, options, out) ==
  Append(Append(out, KarlWrite(task, options)), KarlWrite(task, options))

\* the deferred task building its line and not writing it
EmitNothing(task, options, out) == out

\* a task that reads the arguments and the time of the latest invocation,
\* as if _log kept them in variables of the module
EmitOfLatestInvocation(task, options, out) ==
  Append(out, KarlWrite([task EXCEPT
                           !.parameters = calls[Len(calls)].parameters,
                           !.timestamp = calls[Len(calls)].timestamp],
                        options))

\* stdout.write(msg) at the end of the deferred task (karl.js:383)
Emit(task, options, out) == Append(out, KarlWrite(task, options))

\* The deferred task of _log (karl.js:355-384) runs.  caller.getFileName()
\* throws a TypeError when no frame was captured; an enrich callback may
\* throw; neither is caught, so the error reaches the listener of
\* uncaughtException and the remaining tasks run afterwards.
RunLog ==
  /\ Running /\ immediateQueue # <<>> /\ Head(immediateQueue).type = "log"
  /\ LET task == Head(immediateQueue)
         rest == Tail(immediateQueue)
     IN \/ /\ task.trace = Undefined
           /\ Raise(ErrorObject("TypeError: Cannot read property 'getFileName' of undefined"),
                    rest)
           /\ dropped' = dropped \cup {task.id}
        \/ /\ task.trace # Undefined /\ Enrich(logOptions) = "throws"
           /\ \E err \in ThrownValues : Raise(err, rest)
           /\ dropped' = dropped \cup {task.id}
        \/ /\ task.trace # Undefined /\ Enrich(logOptions) # "throws"
           /\ stdout' = Emit(task, logOptions, stdout)
           /\ immediateQueue' = rest
           /\ UNCHANGED <<calls, dropped, status>>
  /\ UNCHANGED <<Error, activation, heap, logOptions, currentFormatter, console, defaultConsole,
                 nativeConsole, clock, ops, probeSeen, trail>>

\* karl.js:450-452: process.kill(process.pid, "SIGINT")
RunKill ==
  /\ Running /\ immediateQueue # <<>> /\ Head(immediateQueue).type = "kill"
  /\ immediateQueue' = Tail(immediateQueue)
  /\ status' = "SIGINT"
  /\ UNCHANGED <<Error, activation, heap, logOptions, currentFormatter, console, defaultConsole,
                 nativeConsole, stdout, calls, clock, ops, probeSeen, dropped,
                 trail>>

WritesOf(id, out) ==
  {k \in 1..Len(out) : out[k].src = "karl" /\ out[k].id = id}

PendingIds(q) == {q[k].id : k \in {j \in 1..Len(q) : q[j].type = "log"}}

\* The callback of client code runs and looks at what stdout has received:
\* for which of the calls issued before it there is not exactly one write
\* with that call's message, and which of them are still queued.
RunProbe ==
  /\ Running /\ immediateQueue # <<>> /\ Head(immediateQueue).type = "probe"
  /\ immediateQueue' = Tail(immediateQueue)
  /\ LET n == Head(immediateQueue).issued
     IN probeSeen' =
          [ran |-> TRUE, issued |-> n,
           pending |-> (1..n) \cap PendingIds(immediateQueue),
           missing |-> {i \in 1..n :
              ~ /\ Cardinality(WritesOf(i, stdout)) = 1
                /\ \A k \in WritesOf(i, stdout) :
                     stdout[k].event.message = Str(format(calls[i].parameters))}]
  /\ UNCHANGED <<Error, activation, heap, logOptions, currentFormatter, console, defaultConsole,
                 nativeConsole, stdout, calls, clock, ops, dropped, status,
                 trail>>

(***************************************************************************)
(* The scheduler runs the callbacks of setImmediate in the order they were *)
(* scheduled, and keeps running them while the process lives.              *)
(***************************************************************************)
RunImmediate == RunLog \/ RunKill \/ RunProbe

(***************************************************************************)
(* The state after the module is loaded (karl.js:122, 172, 389-396,        *)
(* 423-427) and the specification.                                         *)
(***************************************************************************)
\* a load that samples the console after it has redirected it
LoadedSavingAfterRedirect(con) ==
  LET st == redirectConsole(defaultLogOptions.redirectConsole,
                            [console |-> con, defaultConsole |-> SaveConsole(con)])
  IN [st EXCEPT !.defaultConsole = SaveConsole(st.console)]

Loaded(con) ==
  redirectConsole(defaultLogOptions.redirectConsole,
                  [console |-> con, defaultConsole |-> SaveConsole(con)])

Init ==
  /\ nativeConsole \in {RuntimeConsole(d) : d \in RuntimeDebug}
  /\ console = Loaded(nativeConsole).console
  /\ defaultConsole = Loaded(nativeConsole).defaultConsole
  /\ logOptions = defaultLogOptions
  /\ currentFormatter = "null"
  /\ immediateQueue = <<>>
  /\ stdout = <<>>
  /\ calls = <<>>
  /\ clock = 0
  /\ ops = 0
  /\ probeSeen = [ran |-> FALSE, issued |-> 0, pending |-> {}, missing |-> {}]
  /\ dropped = {}
  /\ status = "running"
  /\ trail = <<>>
  /\ heap = HeapAtStart
  /\ Error = ErrorAtStart
  /\ activation = NoActivation

Next ==
  \/ \E site \in KarlSites : LogCall(site.level, site.place)
  \/ \E site \in ConsoleSites : ConsoleCall(site.method, site.place)
  \/ \E options \in OptionObjects : SetOptions(options)
  \/ RebindConsole
  \/ Tick
  \/ \E err \in ThrownValues : Throw(err)
  \/ ScheduleProbe
  \/ RunImmediate

Spec == Init /\ [][Next]_vars

FairSpec == Spec /\ WF_vars(RunImmediate)

(***************************************************************************)
(* redirectConsole on its own: from the console as the runtime provides it *)
(* (before karl.js:425), any sequence of redirectConsole(true) and         *)
(* redirectConsole(false), with other code rebinding console.log between.  *)
(***************************************************************************)
ConsoleInit ==
  /\ nativeConsole \in {RuntimeConsole(d) : d \in RuntimeDebug}
  /\ console = nativeConsole
  /\ defaultConsole = SaveConsole(nativeConsole)
  /\ logOptions = defaultLogOptions
  /\ currentFormatter = "null"
  /\ immediateQueue = <<>>
  /\ stdout = <<>>
  /\ calls = <<>>
  /\ clock = 0
  /\ ops = 0
  /\ probeSeen = [ran |-> FALSE, issued |-> 0, pending |-> {}, missing |-> {}]
  /\ dropped = {}
  /\ status = "running"
  /\ trail = <<>>
  /\ heap = HeapAtStart
  /\ Error = ErrorAtStart
  /\ activation = NoActivation

Redirect(enable) ==
  /\ Len(trail) < MaxTrail
  /\ LET st == redirectConsole(enable, [console |-> console,
                                        defaultConsole |-> defaultConsole])
     IN console' = st.console /\ defaultConsole' = st.defaultConsole
  /\ trail' = Append(trail, IF enable THEN "enable" ELSE "disable")
  /\ UNCHANGED <<Error, activation, heap, logOptions, currentFormatter, nativeConsole, immediateQueue,
                 stdout, calls, clock, ops, probeSeen, dropped, status>>

Rebind ==
  /\ Len(trail) < MaxTrail /\ console["log"] # Foreign
  /\ console' = [console EXCEPT !["log"] = Foreign]
  /\ trail' = Append(trail, "rebind")
  /\ UNCHANGED <<Error, activation, heap, logOptions, currentFormatter, defaultConsole, nativeConsole,
                 immediateQueue, stdout, calls, clock, ops, probeSeen, dropped,
                 status>>

ConsoleNext == (\E enable \in BOOLEAN : Redirect(enable)) \/ Rebind

ConsoleSpec == ConsoleInit /\ [][ConsoleNext]_vars

(***************************************************************************)
(* Logging calls that are passed an object which client code changes       *)
(* afterwards (karl.js:353, 367).                                          *)
(***************************************************************************)
ArgumentSites ==
  { [level |-> "INFO", place |-> WithObject],
    [level |-> "DEBUG", place |-> InWorker] }

\* client code assigns to a property of the object: someObject.a = a + 1
Mutate ==
  /\ Running /\ ops < MaxOps
  /\ ops' = ops + 1
  /\ heap' = [heap EXCEPT !.someObject.a = @ + 1]
  /\ UNCHANGED <<Error, activation, logOptions, currentFormatter, console,
                 defaultConsole, nativeConsole, immediateQueue, stdout, calls,
                 clock, probeSeen, dropped, status, trail>>

ArgumentNext ==
  \/ \E site \in ArgumentSites : LogCall(site.level, site.place)
  \/ Mutate
  \/ Tick
  \/ RunLog

ArgumentSpec == Init /\ [][ArgumentNext]_vars

(***************************************************************************)
(* extend (karl.js:36-60) applied to objects of client code, and to the    *)
(* two objects setOptions passes it (karl.js:442).  An object is the       *)
(* record of its own enumerable properties.                                *)
(***************************************************************************)
MaxValue == 2

PropertyKeys == {"a", "b"}
PlainObjects ==
  UNION {[keys -> 1..MaxValue] : keys \in SUBSET PropertyKeys}

\* extend({ a: 1 }, { a: 2, b: 3 }, { c: 4 }), the example of karl.js:31-32
ExampleStore ==
  [first |-> [a |-> 1], second |-> [a |-> 2, b |-> 3], third |-> [c |-> 4]]

ExtendStores ==
  {[first |-> o1, second |-> o2, third |-> o3] :
     o1 \in PlainObjects, o2 \in PlainObjects, o3 \in PlainObjects}
  \cup {ExampleStore}
  \cup {[options |-> o, defaultLogOptions |-> defaultLogOptions] :
          o \in OptionObjects}

\* the argument lists extend is called with
ArgumentLists ==
  {<<"first">>, <<"first", "second">>, <<"first", "second", "third">>,
   <<"options", "defaultLogOptions">>}

\* let target = {} (karl.js:39): the object extend creates and returns
Target == "target"

\* the properties target has after the loops of karl.js:41-58 over objects
RECURSIVE extendAll(_)
extendAll(objects) ==
  IF Len(objects) = 1 THEN extend(Head(objects), <<>>)
  ELSE extend(extendAll(Front(objects)), Last(objects))

\* an extend that copies into its first argument and returns it
extendIntoFirst(store, names) ==
  LET target == extendAll([i \in 1..Len(names) |-> store[names[i]]])
  IN [n \in DOMAIN store \cup {Target} |->
        IF n \in {Target, names[1]} THEN target ELSE store[n]]

\* extend(store[names[1]], store[names[2]], ...): the store afterwards
extendObjects(store, names) ==
  LET target == extendAll([i \in 1..Len(names) |-> store[names[i]]])
  IN [n \in DOMAIN store \cup {Target} |->
        IF n = Target THEN target ELSE store[n]]

Extend(names) ==
  /\ Range(names) \subseteq DOMAIN heap
  /\ Target \notin DOMAIN heap
  /\ heap' = extendObjects(heap, names)
  /\ UNCHANGED <<Error, activation, logOptions, currentFormatter, console,
                 defaultConsole, nativeConsole, immediateQueue, stdout, calls,
                 clock, ops, probeSeen, dropped, status, trail>>

ExtendInit ==
  /\ nativeConsole \in {RuntimeConsole(d) : d \in RuntimeDebug}
  /\ console = Loaded(nativeConsole).console
  /\ defaultConsole = Loaded(nativeConsole).defaultConsole
  /\ logOptions = defaultLogOptions
  /\ currentFormatter = "null"
  /\ immediateQueue = <<>>
  /\ stdout = <<>>
  /\ calls = <<>>
  /\ clock = 0
  /\ ops = 0
  /\ probeSeen = [ran |-> FALSE, issued |-> 0, pending |-> {}, missing |-> {}]
  /\ dropped = {}
  /\ status = "running"
  /\ trail = <<>>
  /\ heap \in ExtendStores
  /\ Error = ErrorAtStart
  /\ activation = NoActivation

\* client code calls extend, or karl.setOptions with its options object
ExtendNext ==
  \/ \E names \in ArgumentLists : Extend(names)
  \/ "options" \in DOMAIN heap /\ SetOptions(heap.options)

ExtendSpec == ExtendInit /\ [][ExtendNext]_vars

(***************************************************************************)
(* setOptions applied to every options object over the keys the tests pass *)
(* (karl.js:441-445), humanReadable among them.                            *)
(***************************************************************************)
OptionKeys ==
  {"includeLocationInformation", "colorize", "redirectConsole", "json",
   "humanReadable"}

FormatterOptions == UNION {[keys -> BOOLEAN] : keys \in SUBSET OptionKeys}

FormatterNext == \E options \in FormatterOptions : SetOptions(options)

FormatterSpec == Init /\ [][FormatterNext]_vars

(***************************************************************************)
(* getStackInfo statement by statement (karl.js:226-254), on the           *)
(* process-wide Error.stackTraceLimit and Error.prepareStackTrace, started *)
(* from the configurations other code may have left.                       *)
(***************************************************************************)
MaxCaptures == 2

programState ==
  <<logOptions, currentFormatter, console, defaultConsole, nativeConsole,
    immediateQueue, stdout, calls, clock, ops, probeSeen, dropped, status,
    trail, heap>>

\* The places a logging method is called from.
CapturePlaces == {InMain, InWorker, InRoute, ByRuntime}

CaptureInit ==
  /\ nativeConsole \in {RuntimeConsole(d) : d \in RuntimeDebug}
  /\ console = Loaded(nativeConsole).console
  /\ defaultConsole = Loaded(nativeConsole).defaultConsole
  /\ logOptions = defaultLogOptions
  /\ currentFormatter = "null"
  /\ immediateQueue = <<>>
  /\ stdout = <<>>
  /\ calls = <<>>
  /\ clock = 0
  /\ ops = 0
  /\ probeSeen = [ran |-> FALSE, issued |-> 0, pending |-> {}, missing |-> {}]
  /\ dropped = {}
  /\ status = "running"
  /\ trail = <<>>
  /\ heap = HeapAtStart
  /\ Error \in [stackTraceLimit : {Num(0), Num(10), Num(50)},
                prepareStackTrace : {Undefined, UserPrepare}]
  /\ activation = [NoActivation EXCEPT !.entry = Error]

\* karl.js:349 calls stackTrace.get(_log); 228-233: the assertion passes,
\* stackInfo is null, the two values are saved.
CallGetStackInfo(place) ==
  /\ activation.pc \in {"idle", "returned", "thrown"}
  /\ activation.count < MaxCaptures
  /\ activation' =
       [pc |-> "limit", stack |-> place.stack \o <<LogFrame>>,
        limFn |-> LogFrame, frames |-> <<>>,
        saveLimit |-> Error.stackTraceLimit,
        savePrepare |-> Error.prepareStackTrace,
        stackInfo |-> Null, entry |-> Error,
        count |-> activation.count + 1]
  /\ UNCHANGED <<Error, programState>>

\* karl.js:235
SetLimit ==
  /\ activation.pc = "limit"
  /\ Error' = [Error EXCEPT !.stackTraceLimit = Num(1)]
  /\ activation' = [activation EXCEPT !.pc = "capture"]
  /\ UNCHANGED programState

\* karl.js:239
Capture ==
  /\ activation.pc = "capture"
  /\ activation' =
       [activation EXCEPT
          !.pc = "prepare",
          !.frames = captureStackTrace(activation.stack, activation.limFn,
                                       Error.stackTraceLimit.v)]
  /\ UNCHANGED <<Error, programState>>

\* karl.js:241-243
SetPrepare ==
  /\ activation.pc = "prepare"
  /\ Error' = [Error EXCEPT !.prepareStackTrace = KarlPrepare]
  /\ activation' = [activation EXCEPT !.pc = "read"]
  /\ UNCHANGED programState

\* karl.js:248: reading obj.stack runs Error.prepareStackTrace on the frames
\* captured; the function of 241-243 stores stack[0].
ReadStack ==
  /\ activation.pc = "read"
  /\ activation' =
       [activation EXCEPT
          !.pc = "restore",
          !.stackInfo =
             IF Error.prepareStackTrace # KarlPrepare THEN Null
             ELSE IF activation.frames = <<>> THEN Undefined
             ELSE activation.frames[1]]
  /\ UNCHANGED <<Error, programState>>

\* karl.js:239 and 248 call into the runtime and, at 248, into a function:
\* with the call stack exhausted either raises RangeError, which no
\* statement of getStackInfo catches (226-254 has no try).
CaptureThrows ==
  /\ activation.pc \in {"capture", "read"}
  /\ activation' = [activation EXCEPT !.pc = "thrown"]
  /\ UNCHANGED <<Error, programState>>

\* karl.js:250-251
Restore ==
  /\ activation.pc = "restore"
  /\ Error' = [stackTraceLimit |-> activation.saveLimit,
               prepareStackTrace |-> activation.savePrepare]
  /\ activation' = [activation EXCEPT !.pc = "return"]
  /\ UNCHANGED programState

\* karl.js:253
Return ==
  /\ activation.pc = "return"
  /\ activation' = [activation EXCEPT !.pc = "returned"]
  /\ UNCHANGED <<Error, programState>>

CaptureNext ==
  \/ \E place \in CapturePlaces : CallGetStackInfo(place)
  \/ SetLimit
  \/ Capture
  \/ SetPrepare
  \/ ReadStack
  \/ CaptureThrows
  \/ Restore
  \/ Return

CaptureSpec == CaptureInit /\ [][CaptureNext]_vars

(***************************************************************************)
(* Properties.                                                             *)
(***************************************************************************)
\* The writes of the logger among the writes stdout received, in order.
KarlWrites == SelectSeq(stdout, LAMBDA w : w.src = "karl")

Ids == 1..Len(calls)

WrittenIds == {KarlWrites[k].id : k \in 1..Len(KarlWrites)}

\* The write w carries the event of the invocation c.
Carries(w, c) ==
  /\ w.event.level = c.level
  /\ w.event.message = Str(format(c.parameters))
  /\ w.event.timestamp = Str(toISOString(c.timestamp))

C3_NoWriteDuringCall ==
  [][/\ Len(calls') > Len(calls) => stdout' = stdout
     /\ Len(KarlWrites') > Len(KarlWrites)
          => /\ immediateQueue # <<>>
             /\ Head(immediateQueue).type = "log"
             /\ Len(KarlWrites') = Len(KarlWrites) + 1
             /\ KarlWrites'[Len(KarlWrites')].id = Head(immediateQueue).id
             /\ Head(immediateQueue).id \in Ids]_vars

\* A logging call has returned, its task is queued and stdout has received
\* nothing.
C3_Witness ==
  /\ Len(calls) = 1
  /\ PendingIds(immediateQueue) = {1}
  /\ stdout = <<>>

LevelsKept ==
  /\ \A k \in 1..Len(immediateQueue) :
       immediateQueue[k].type = "log" =>
         immediateQueue[k].level = calls[immediateQueue[k].id].level
  /\ \A k \in 1..Len(KarlWrites) :
       /\ KarlWrites[k].event.level = calls[KarlWrites[k].id].level
       /\ KarlWrites[k].event.level \in Levels
  /\ Ids = PendingIds(immediateQueue) \cup WrittenIds \cup dropped

\* C5: no invocation is suppressed because of its level: under every
\* configuration, a call of each of the six methods queues one task whose
\* level is the upper-case name of the method, every invocation is queued,
\* written or lost to a throwing task, and a written event bears the level
\* of its invocation; before and after every step.
C5_LevelIsMethodName ==
  [][/\ LevelsKept /\ LevelsKept'
     /\ \A site \in KarlSites :
          LogCall(site.level, site.place) =>
            /\ Len(immediateQueue') = Len(immediateQueue) + 1
            /\ immediateQueue'[Len(immediateQueue')].type = "log"
            /\ immediateQueue'[Len(immediateQueue')].level = site.level]_vars

\* Events of the lowest two levels and of the highest are on stdout.
C5_Witness ==
  \A level \in {"TRACE", "DEBUG", "FATAL"} :
    \E k \in 1..Len(KarlWrites) : KarlWrites[k].event.level = level

\* C6: the timestamp and the call-site of a written event are those
\* captured while the logging method ran, whatever happened between the
\* call and the write: the time of the invocation, and the frame below the
\* entry point then (the placeholder when location was disabled then).
C6_TimestampAndCallSiteFromInvocation ==
  \A k \in 1..Len(KarlWrites) :
    LET e == KarlWrites[k].event
        c == calls[KarlWrites[k].id]
    IN /\ e.timestamp = Str(toISOString(c.timestamp))
       /\ IF c.options.includeLocationInformation
          THEN /\ c.stack # <<>>
               /\ e.fileName = Str(<<Last(Last(c.stack).getFileName.v)>>)
               /\ e.lineNumber = Last(c.stack).getLineNumber
               /\ e.functionName \in {Last(c.stack).getFunctionName, Anonymous}
          ELSE e.fileName = Null /\ e.filePath = Null /\ e.lineNumber = Null

\* An event written later than it was logged, after the clock moved and
\* setOptions installed an enrich callback, with the time and the line of
\* its invocation.
C6_Witness ==
  \E k \in 1..Len(KarlWrites) :
    LET w == KarlWrites[k]
        c == calls[w.id]
    IN /\ w.at > c.timestamp
       /\ Enrich(c.options) = "undefined"
       /\ w.event.added # <<>>
       /\ w.event.timestamp = Str(toISOString(c.timestamp))
       /\ w.event.lineNumber = Num(10)

\* The frame every queued task holds is the frame right below _log in its
\* invocation, and not the frame of _log.
TopFrameCaptured ==
  \A k \in 1..Len(immediateQueue) :
    LET task == immediateQueue[k]
    IN (/\ task.type = "log"
        /\ calls[task.id].options.includeLocationInformation
        /\ calls[task.id].stack # <<>>)
       => task.trace = Last(calls[task.id].stack) /\ task.trace # LogFrame

\* C7: with location information enabled, the call-site captured is the
\* frame of the immediate caller of the entry point, never the entry point
\* or a frame of the logger; and a call of a redirected console method is
\* the call of the logging method it is bound to, from the same place: no
\* frame of the redirection comes between.
C7_CallSiteIsImmediateCaller ==
  [][/\ TopFrameCaptured /\ TopFrameCaptured'
     /\ \A site \in KarlSites :
          (/\ LogCall(site.level, site.place)
           /\ logOptions.includeLocationInformation
           /\ site.place.stack # <<>>)
          => immediateQueue'[Len(immediateQueue')].trace = Last(site.place.stack)
     /\ \A site \in ConsoleSites :
          (/\ ConsoleCall(site.method, site.place)
           /\ console[site.method].kind = "bound")
          => /\ LogCall(console[site.method].fn, site.place)
             /\ (logOptions.includeLocationInformation /\ site.place.stack # <<>>)
                  => immediateQueue'[Len(immediateQueue')].trace
                       = Last(site.place.stack)]_vars

\* console.log was called from the route handler while redirected, and the
\* task it queued holds the frame of the route handler.
C7_Witness ==
  \E k \in 1..Len(immediateQueue) :
    /\ immediateQueue[k].type = "log"
    /\ immediateQueue[k].level = "INFO"
    /\ immediateQueue[k].trace = fRoute

\* The bindings of the console after redirectConsole(true), and after
\* redirectConsole(true) then redirectConsole(false), from the console of
\* the runtime.
AfterEnable == [m \in ConsoleMethods |-> KarlBound(RedirectTarget(m))]
AfterEnableDisable ==
  [m \in ConsoleMethods |->
     IF m = "debug" THEN nativeConsole["log"] ELSE nativeConsole[m]]

\* C8: from the console of the runtime, enable, enable, disable, disable
\* leaves the six console methods bound exactly as enable, disable does;
\* and an enable right after an enable, or a disable right after a
\* disable, changes no binding.
C8_RepeatedRedirectChangesNothing ==
  /\ [](trail \in {<<"enable">>, <<"enable", "enable">>}
          => console = AfterEnable)
  /\ [](trail \in {<<"enable", "disable">>,
                   <<"enable", "enable", "disable">>,
                   <<"enable", "enable", "disable", "disable">>}
          => console = AfterEnableDisable)
  /\ [][\A enable \in BOOLEAN :
          (/\ Redirect(enable)
           /\ trail # <<>>
           /\ Last(trail) = (IF enable THEN "enable" ELSE "disable"))
          => console' = console /\ defaultConsole' = defaultConsole]_vars

\* enable, enable, disable, disable has been applied.
C8_Witness ==
  /\ trail = <<"enable", "enable", "disable", "disable">>
  /\ console = AfterEnableDisable

\* The invocations made by the console calls of the route handler, which
\* reaches the logger through the console only.
ViaConsole(i) == calls[i].stack # <<>> /\ Last(calls[i].stack) = fRoute

\* While the logger holds the console, each console method is bound
\* directly to its one logging method.
BoundDirectly ==
  \A m \in ConsoleMethods :
    console[m].kind = "bound" => console[m] = KarlBound(RedirectTarget(m))

\* One call of a console method bound to the logger is one invocation and
\* one task, and writes nothing itself; and the run of a task that writes
\* its event makes no invocation.
OneTaskPerConsoleCall ==
  /\ \A site \in ConsoleSites :
       (/\ ConsoleCall(site.method, site.place)
        /\ console[site.method].kind = "bound")
       => /\ Len(calls') = Len(calls) + 1
          /\ PendingIds(immediateQueue') = PendingIds(immediateQueue) \cup {Len(calls')}
          /\ Len(immediateQueue') = Len(immediateQueue) + 1
          /\ stdout' = stdout
  /\ Len(KarlWrites') > Len(KarlWrites) => calls' = calls

\* Once the task of a console call of the route handler has run, stdout
\* holds exactly one write for it.
WrittenExactlyOnce ==
  \A i \in Ids :
    (ViaConsole(i) /\ i \notin PendingIds(immediateQueue))
      => Cardinality(WritesOf(i, stdout)) = 1

\* No invocation has more than one write; one whose task has run has
\* exactly one, unless the task threw, and then it has none.
WrittenAtMostOnce ==
  \A i \in Ids :
    /\ Cardinality(WritesOf(i, stdout)) <= 1
    /\ (i \notin PendingIds(immediateQueue) \cup dropped)
         => Cardinality(WritesOf(i, stdout)) = 1
    /\ i \in dropped => WritesOf(i, stdout) = {}

C10_RestoreIsRoundTrip ==
  [][(Redirected /\ ~Redirected') =>
       \A m \in ConsoleMethods : console'[m] = nativeConsole[m]]_vars

\* C10, amended: that step leaves log, info, warn, error and trace bound to
\* the functions they were bound to when the module was loaded, and debug
\* bound to the function console.log was bound to then.
C10_RestoreIsRoundTripButDebug ==
  [][(Redirected /\ ~Redirected') =>
       /\ \A m \in ConsoleMethods \ {"debug"} : console'[m] = nativeConsole[m]
       /\ console'["debug"] = nativeConsole["log"]]_vars

\* The console has been restored by setOptions({redirectConsole: false}).
C10_Witness ==
  /\ ~logOptions.redirectConsole
  /\ ~Redirected
  /\ console["trace"] = nativeConsole["trace"]
  /\ console["debug"] = nativeConsole["log"]

\* The level the specification gives the event of each console method.
ConsoleLevel ==
  [log |-> "INFO", trace |-> "TRACE", debug |-> "DEBUG", info |-> "INFO",
   warn |-> "WARN", error |-> "ERROR"]

C12_ConsoleFollowsConfiguration ==
  [][/\ (currentFormatter = "null" /\ console["log"] # Foreign)
          => Redirected /\ console = AfterEnable
     /\ (currentFormatter' = "null" /\ console'["log"] # Foreign)
          => Redirected' /\ console' = AfterEnable
     /\ \A options \in OptionObjects :
          SetOptions(options) =>
            LET effective == IF "redirectConsole" \in DOMAIN options
                             THEN options.redirectConsole ELSE TRUE
            IN /\ Redirected' <=> effective
               /\ console'["log"] # Foreign =>
                    console' = IF effective THEN AfterEnable ELSE defaultConsole]_vars

\* The console was native (a console call was written by the runtime's
\* own function), and a setOptions that omits redirectConsole has
\* redirected it again.
C12_Witness ==
  /\ \E k \in 1..Len(stdout) : stdout[k].src = "console"
  /\ logOptions.redirectConsole
  /\ currentFormatter # "null"
  /\ Redirected
  /\ console = AfterEnable

\* The defaults the specification documents.
DocumentedDefaults ==
  [includeLocationInformation |-> TRUE, colorize |-> FALSE,
   redirectConsole |-> TRUE, json |-> TRUE]

\* C13: setOptions merges against the defaults, not the active
\* configuration: after setOptions(o) each of includeLocationInformation,
\* colorize, redirectConsole, json and enrich has the value of o when o has
\* the key and else its default (true, false, true, true, no enrich),
\* whatever was active before.
C13_MergeAgainstDefaults ==
  [][\A options \in OptionObjects :
       SetOptions(options) =>
         /\ DOMAIN logOptions' = DOMAIN options \cup DOMAIN DocumentedDefaults
         /\ \A key \in DOMAIN DocumentedDefaults :
              logOptions'[key] = IF key \in DOMAIN options THEN options[key]
                                 ELSE DocumentedDefaults[key]
         /\ Enrich(logOptions') = IF "enrich" \in DOMAIN options
                                  THEN options.enrich ELSE "undefined"]_vars

\* An event was written as text, so json was false then; a later setOptions
\* that passes only enrich has left json at its default.
C13_Witness ==
  /\ \E k \in 1..Len(KarlWrites) :
       KarlWrites[k].render.formatter = "textFormatter"
  /\ Enrich(logOptions) = "tag"
  /\ logOptions.json
  /\ logOptions.includeLocationInformation

\* C14: the formatter that renders an event is the one configured when the
\* logging method was invoked: every queued task holds, and every written
\* event was rendered by, the formatter of the json option in force at its
\* invocation, whatever setOptions did between invocation and emission.
C14_FormatterOfInvocation ==
  /\ \A k \in 1..Len(immediateQueue) :
       immediateQueue[k].type = "log" =>
         immediateQueue[k].format =
           (IF calls[immediateQueue[k].id].options.json
            THEN "jsonFormatter" ELSE "textFormatter")
  /\ \A k \in 1..Len(KarlWrites) :
       KarlWrites[k].render.formatter =
         (IF calls[KarlWrites[k].id].options.json
          THEN "jsonFormatter" ELSE "textFormatter")

\* An event issued with json false was written as text after a setOptions
\* that made json true and installed an enrich callback.
C14_Witness ==
  \E k \in 1..Len(KarlWrites) :
    /\ ~calls[KarlWrites[k].id].options.json
    /\ KarlWrites[k].render.formatter = "textFormatter"
    /\ Enrich(calls[KarlWrites[k].id].options) = "undefined"
    /\ KarlWrites[k].event.added # <<>>

\* C15: for an event issued while includeLocationInformation is false the
\* call-site resolver is bypassed (the task holds the placeholder trace),
\* and the written record has fileName, filePath and lineNumber null and
\* functionName "<anonymous>", for every level and both formatters.
C15_NoLocationWhenDisabled ==
  /\ \A k \in 1..Len(immediateQueue) :
       (/\ immediateQueue[k].type = "log"
        /\ ~calls[immediateQueue[k].id].options.includeLocationInformation)
       => immediateQueue[k].trace = Frame(Null, Null, Null)
  /\ \A k \in 1..Len(KarlWrites) :
       ~calls[KarlWrites[k].id].options.includeLocationInformation
       => /\ KarlWrites[k].event.fileName = Null
          /\ KarlWrites[k].event.filePath = Null
          /\ KarlWrites[k].event.lineNumber = Null
          /\ KarlWrites[k].event.functionName = Str(<<"<anonymous>">>)

\* An event issued with location disabled from a named function has been
\* written by the text formatter, and one of the lowest level by some
\* formatter.
C15_Witness ==
  /\ \E k \in 1..Len(KarlWrites) :
       /\ ~calls[KarlWrites[k].id].options.includeLocationInformation
       /\ calls[KarlWrites[k].id].stack # <<>>
       /\ KarlWrites[k].render.formatter = "textFormatter"
       /\ KarlWrites[k].event.lineNumber = Null
  /\ \E k \in 1..Len(KarlWrites) :
       /\ ~calls[KarlWrites[k].id].options.includeLocationInformation
       /\ KarlWrites[k].event.level = "TRACE"

\* The four location fields of a record.
LocationFields(e) == {e.fileName, e.filePath, e.lineNumber, e.functionName}

\* All four populated or all four absent, where absent is null or
\* undefined; and the same where the sentinel "<anonymous>" also counts as
\* absent, as it is what functionName holds when location is disabled.
AllOrNone(e, absent) ==
  \/ LocationFields(e) \cap absent = {}
  \/ LocationFields(e) \subseteq absent

\* C16, as the specification states it: in every written event the four
\* location fields are all populated or all absent; under one reading of
\* "absent" (null, or null and the sentinel) no written event mixes
\* populated and absent fields.
C16_LocationAllOrNone ==
  \/ \A k \in 1..Len(KarlWrites) :
       AllOrNone(KarlWrites[k].event, {Null, Undefined})
  \/ \A k \in 1..Len(KarlWrites) :
       AllOrNone(KarlWrites[k].event, {Null, Undefined, Anonymous})

\* C16, amended: in every written event fileName, filePath and lineNumber
\* are all non-null or all null; functionName is never null: it is the name
\* of the calling function, or "<anonymous>" when the caller has no name or
\* when the other three are null.
C16_FileFieldsAllOrNone ==
  \A k \in 1..Len(KarlWrites) :
    LET e == KarlWrites[k].event
        three == {e.fileName, e.filePath, e.lineNumber}
    IN /\ e.functionName \notin {Null, Undefined}
       /\ \/ three \cap {Null, Undefined} = {}
          \/ three = {Null} /\ e.functionName = Anonymous

\* On stdout are an event of an anonymous caller, with file and line and
\* the sentinel, and an event issued with location disabled.
C16_Witness ==
  /\ \E k \in 1..Len(KarlWrites) :
       /\ KarlWrites[k].event.lineNumber = Num(20)
       /\ KarlWrites[k].event.functionName = Anonymous
  /\ \E k \in 1..Len(KarlWrites) :
       /\ KarlWrites[k].event.lineNumber = Null
       /\ KarlWrites[k].event.functionName = Anonymous

\* C17: when call-site capture retrieves no frame, neither the logging call
\* nor its deferred task throws: the task of such an invocation, run with no
\* throwing enrich callback, writes the event with null location fields and
\* the sentinel, makes no other invocation and leaves the process running.
C17_EmptyCaptureStillWritten ==
  [][(/\ RunLog
      /\ calls[Head(immediateQueue).id].stack = <<>>
      /\ calls[Head(immediateQueue).id].options.includeLocationInformation
      /\ Enrich(logOptions) # "throws")
     => /\ Len(KarlWrites') = Len(KarlWrites) + 1
        /\ KarlWrites'[Len(KarlWrites')].id = Head(immediateQueue).id
        /\ KarlWrites'[Len(KarlWrites')].event.fileName = Null
        /\ KarlWrites'[Len(KarlWrites')].event.lineNumber = Null
        /\ KarlWrites'[Len(KarlWrites')].event.functionName = Anonymous
        /\ calls' = calls
        /\ status' = status]_vars


\* C18: whenever getStackInfo finishes, by returning or by throwing during
\* the capture, Error.stackTraceLimit and Error.prepareStackTrace have the
\* values they had before the call.
C18_CaptureLeavesErrorUnchanged ==
  activation.pc \in {"returned", "thrown"} => Error = activation.entry


\* The string has the opening escape of the colour first and its closing
\* escape last, and no escape sequence between them.
WrappedIn(text, color) ==
  /\ Len(text) >= 2
  /\ text[1] = inspectColors[color][1]
  /\ text[Len(text)] = inspectColors[color][2]
  /\ \A i \in 2..(Len(text) - 1) : text[i] \notin Escapes

NoEscape(text) == \A i \in 1..Len(text) : text[i] \notin Escapes

ReadmeColour ==
  [TRACE |-> "none", DEBUG |-> "none", INFO |-> "none", WARN |-> "yellow",
   ERROR |-> "red", FATAL |-> "red"]
ColourWithTraceGreen == [ReadmeColour EXCEPT !["TRACE"] = "green"]

\* The write of a deferred task that runs with colorize true starts with
\* the opening escape of the colour the table gives its level, and has no
\* escape sequence at all where the table gives none.
ColouredBy(table) ==
  (RunLog /\ Len(stdout') > Len(stdout) /\ logOptions.colorize) =>
    LET w == Last(stdout')
        colour == table[w.event.level]
    IN IF colour = "none" THEN \A i \in DOMAIN w.text : w.text[i] \notin Escapes
       ELSE Head(w.text) = inspectColors[colour][1]

C21_ColouredWriteEndsWithNewline ==
  [][(RunLog /\ Len(stdout') > Len(stdout)) =>
       LET text == Last(stdout').text
           n == Len(text)
       IN /\ text[n] = "\n"
          /\ (logOptions.colorize /\ Last(stdout').event.level = "WARN") =>
               /\ n >= 3
               /\ text[1] = inspectColors["yellow"][1]
               /\ text[n - 1] = inspectColors["yellow"][2]]_vars


\* C22: with colorize true, the string written for a WARN event has the
\* yellow start-escape at index 0, and the reset escape occurs exactly once,
\* as the last characters of the string: nothing follows it.
C22_ResetEscapeOnceAndLast ==
  [][(RunLog /\ Len(stdout') > Len(stdout) /\ logOptions.colorize
        /\ Last(stdout').event.level = "WARN") =>
       LET text == Last(stdout').text
           reset == inspectColors["yellow"][2]
       IN /\ text[1] = inspectColors["yellow"][1]
          /\ {i \in 1..Len(text) : text[i] = reset} = {Len(text)}]_vars

\* A WARN record serialized by jsonFormatter and written in yellow.
C22_Witness ==
  \E k \in 1..Len(KarlWrites) :
    /\ KarlWrites[k].event.level = "WARN"
    /\ KarlWrites[k].render.formatter = "jsonFormatter"
    /\ KarlWrites[k].text[1] = inspectColors["yellow"][1]
    /\ Last(KarlWrites[k].text) = inspectColors["yellow"][2]


SerializedBy(w) == w.render.formatter = "jsonFormatter"
Uncoloured(w) == w.render.color \in {"none", "defaultTextColor"}

\* The string is one serialized record on one line: an object from its
\* opening to its closing brace, the record of the event, then one newline,
\* and no newline anywhere else.
OneRecordOnOneLine(text, event) ==
  /\ text = jsonFormatter(event) \o <<"\n">>
  /\ Head(text) = "{" /\ text[Len(text) - 1] = "}"
  /\ {i \in 1..Len(text) : text[i] = "\n"} = {Len(text)}

\* C23, as the specification states it: when json is true, every write is
\* exactly one well-formed record on one line, the serialized record followed
\* by a single newline, with no other newline and no character outside the
\* record, for every level, every message and every colorize setting.
C23_JsonWriteIsOneRecordPerLine ==
  \A k \in 1..Len(KarlWrites) :
    SerializedBy(KarlWrites[k]) =>
      OneRecordOnOneLine(KarlWrites[k].text, KarlWrites[k].event)

\* C23, amended: when json is true, a write that is not coloured (colorize
\* false, or a DEBUG or INFO event) is exactly one well-formed record on one
\* line, whatever the message; a coloured write is that same line between
\* the start escape and the reset escape of its colour.
C23_JsonWriteIsOneRecordPerLineInsideColour ==
  \A k \in 1..Len(KarlWrites) :
    LET w == KarlWrites[k]
    IN SerializedBy(w) =>
         IF Uncoloured(w) THEN OneRecordOnOneLine(w.text, w.event)
         ELSE /\ Len(w.text) >= 2
              /\ w.text[1] = inspectColors[w.render.color][1]
              /\ Last(w.text) = inspectColors[w.render.color][2]
              /\ OneRecordOnOneLine(SubSeq(w.text, 2, Len(w.text) - 1), w.event)

\* A serialized, uncoloured record whose message holds a newline, written
\* after another serialized record.
C23_Witness ==
  \E j, k \in 1..Len(KarlWrites) :
    /\ j < k
    /\ SerializedBy(KarlWrites[j])
    /\ SerializedBy(KarlWrites[k]) /\ Uncoloured(KarlWrites[k])
    /\ "\n" \in Range(KarlWrites[k].event.message.v)


UncaughtPrefix == "UncaughtException: "

\* The message of a FATAL event the listener of uncaughtException logs.
ReportsUncaught(message) == message # <<>> /\ Head(message) = UncaughtPrefix

EndsWith(s, t) ==
  Len(t) <= Len(s) /\ SubSeq(s, Len(s) - Len(t) + 1, Len(s)) = t

\* The step is one in which an error reaches the listener: client code
\* throws, or a deferred task of the logger does.
ThrownByClient(err) == Throw(err)
ThrownByTask == RunLog /\ dropped' # dropped

\* The listener has enqueued a FATAL event that reports an uncaught
\* exception, and after it the task that sends SIGINT.
FatalEnqueued ==
  /\ Len(calls') = Len(calls) + 1
  /\ Last(calls').level = "FATAL"
  /\ ReportsUncaught(format(Last(calls').parameters))
  /\ Len(immediateQueue') >= 2
  /\ immediateQueue'[Len(immediateQueue') - 1].type = "log"
  /\ immediateQueue'[Len(immediateQueue') - 1].id = Len(calls')
  /\ Last(immediateQueue') = KillTask

FatalWritten(out) ==
  \E k \in 1..Len(out) :
    /\ out[k].src = "karl" /\ out[k].event.level = "FATAL"
    /\ ReportsUncaught(out[k].event.message.v)

\* C24: when the listener of uncaughtException fires, a FATAL event whose
\* message starts with "UncaughtException: " and carries the stack of the
\* error is enqueued; SIGINT is sent only on a later turn, after that FATAL
\* event has been written to stdout, never before.
C24_SigintAfterFatalWrite ==
  [][/\ \A err \in ThrownValues :
          ThrownByClient(err) =>
            /\ FatalEnqueued
            /\ StackOf(err) # Undefined =>
                 EndsWith(format(Last(calls').parameters), StackOf(err).v)
     /\ ThrownByTask => FatalEnqueued
     /\ (status' = "SIGINT" /\ status # "SIGINT") =>
          (RunKill /\ FatalWritten(stdout))]_vars


\* C25: the listener of uncaughtException never throws, whatever value
\* reaches it (an Error, a value that is not an Error, null or undefined),
\* and every uncaught error, one raised inside a deferred task of the logger
\* included, becomes a FATAL event that is written before the process is
\* terminated.
C25_HandlerNeverThrowsAndFatalWritten ==
  [][/\ status' # "crashed"
     /\ ((\E err \in ThrownValues : ThrownByClient(err)) \/ ThrownByTask) =>
          FatalEnqueued
     /\ (status' = "SIGINT" /\ status # "SIGINT") =>
          \A i \in Ids :
            (calls[i].level = "FATAL"
               /\ ReportsUncaught(format(calls[i].parameters))) =>
              i \in WrittenIds]_vars


Contains(text, part) ==
  \E i \in 1..(Len(text) - Len(part) + 1) :
    SubSeq(text, i, i + Len(part) - 1) = part

\* what the enrich callback of the README adds to a record, and how
\* JSON.stringify writes it
AddedByCallback == <<[key |-> "requestId", value |-> Str(<<"r1">>)]>>
AddedAsWritten ==
  JsonString(<<"requestId">>) \o <<":">> \o JsonString(<<"r1">>)

\* C26: when an enrich callback is configured it is applied exactly once to
\* the record of each emitted event, after the record is assembled and
\* before it is formatted, so every field it adds is in the structured
\* output of that event; when none is configured none is applied.
C26_EnrichOncePerEventBeforeFormat ==
  [][(RunLog /\ Len(stdout') > Len(stdout)) =>
       LET w == Last(stdout')
       IN /\ Carries(w, calls[w.id])
          /\ IF Enrich(logOptions) = "tag"
             THEN /\ w.event.added = AddedByCallback
                  /\ SerializedBy(w) => Contains(w.text, AddedAsWritten)
             ELSE /\ Enrich(logOptions) = "undefined"
                  /\ w.event.added = <<>>
                  /\ ~Contains(w.text, <<"requestId">>)]_vars

\* A serialized record that carries the field the callback added, written
\* after a record no callback was applied to.
C26_Witness ==
  \E j, k \in 1..Len(KarlWrites) :
    /\ j < k
    /\ KarlWrites[j].event.added = <<>>
    /\ KarlWrites[k].event.added = AddedByCallback
    /\ SerializedBy(KarlWrites[k])
    /\ Contains(KarlWrites[k].text, AddedAsWritten)


NonNull(x) == x # Null /\ x # Undefined

Reconfigured(i) == calls[i].options # logOptions

\* setOptions, and the redirection or restoration of the console it does,
\* leaves the pending tasks, the invocations and stdout as they are.
PendingKept ==
  \A options \in OptionObjects :
    SetOptions(options) =>
      /\ immediateQueue' = immediateQueue
      /\ calls' = calls /\ stdout' = stdout /\ dropped' = dropped

\* The task that runs is the oldest one pending.
OldestFirst ==
  RunLog => \A j \in PendingIds(immediateQueue) : Head(immediateQueue).id <= j

\* The task that runs writes its event, which had no write before, once.
HeadWrittenOnce ==
  LET i == Head(immediateQueue).id
  IN /\ WritesOf(i, stdout) = {}
     /\ Cardinality(WritesOf(i, stdout')) = 1
     /\ Len(stdout') = Len(stdout) + 1 /\ Last(stdout').id = i

\* The task that runs throws: its event has no write, and never gets one.
HeadDropped ==
  LET i == Head(immediateQueue).id
  IN /\ WritesOf(i, stdout') = {}
     /\ i \in dropped' /\ i \notin PendingIds(immediateQueue')

WithoutHumanReadable(options) ==
  [key \in DOMAIN options \ {"humanReadable"} |-> options[key]]

C30_TextLayoutFollowsLocationAtCall ==
  \A k \in 1..Len(KarlWrites) :
    LET w == KarlWrites[k]
        atCall == calls[w.id].options
    IN w.render.formatter = "textFormatter" =>
         /\ w.render.layout =
              IF atCall.includeLocationInformation THEN "long" ELSE "short"
         /\ Contains(w.text, textFormatter(w.event, atCall))
         /\ w.render.layout = "long" =>
              /\ NonNull(w.event.fileName) /\ NonNull(w.event.filePath)
              /\ NonNull(w.event.lineNumber)


\* C31: the saved console bindings are those the console had when the module
\* was loaded, before the first redirection, and no setOptions call, no
\* redirection or restoration and no logging call changes them.
C31_SavedConsoleSampledOnceAtLoad ==
  [][/\ defaultConsole = SaveConsole(nativeConsole)
     /\ defaultConsole' = defaultConsole
     /\ \A m \in ConsoleMethods : defaultConsole'[m].kind # "bound"]_vars

\* The console was restored and redirected again, a logging call was made
\* through it, and the saved bindings are still those of the runtime.
C31_Witness ==
  /\ ops = MaxOps /\ Redirected
  /\ \E i \in Ids : ~calls[i].options.redirectConsole
  /\ defaultConsole = SaveConsole(nativeConsole)


\* The call-site of the write w is the one of the invocation c.
CallSiteOf(w, c) ==
  IF c.options.includeLocationInformation
  THEN /\ w.event.lineNumber = Last(c.stack).getLineNumber
       /\ w.event.fileName = Str(basename(Last(c.stack).getFileName.v))
  ELSE w.event.lineNumber = Null /\ w.event.fileName = Null

\* C32: events are independent: when several logging calls are pending at
\* once, the event a task writes has the level, the timestamp, the call-site
\* and the message of the invocation that created the task, and the tasks
\* that stay pending are left as they were.
C32_PendingEventsIndependent ==
  [][(/\ RunLog /\ Len(stdout') > Len(stdout)
      /\ Cardinality(PendingIds(immediateQueue)) >= 2) =>
       LET w == Last(stdout')
           c == calls[w.id]
       IN /\ w.id = Head(immediateQueue).id
          /\ Carries(w, c) /\ CallSiteOf(w, c)
          /\ immediateQueue' = Tail(immediateQueue)]_vars

\* Two events written that were pending together (the second was issued
\* before the first was written), from different lines, with different
\* messages and levels.
C32_Witness ==
  \E j, k \in 1..Len(KarlWrites) :
    LET cj == calls[KarlWrites[j].id]
        ck == calls[KarlWrites[k].id]
    IN /\ j < k
       /\ ck.timestamp < KarlWrites[j].at
       /\ cj.parameters # ck.parameters /\ cj.level # ck.level
       /\ KarlWrites[j].event.lineNumber # KarlWrites[k].event.lineNumber


\* The write is in a colour, and carries what an enrich callback added, as
\* the options o say.
ColouredAndEnrichedAs(w, o) ==
  /\ ~Uncoloured(w) <=>
       (o.colorize /\ logColors[w.event.level] # "defaultTextColor")
  /\ w.event.added # <<>> <=> Enrich(o) = "tag"

\* C33, as stated: what is written for an event depends only on the
\* configuration in force when the logging method was invoked: a setOptions
\* call between the invocation and the emission changes neither whether the
\* event is colorized nor which enrich callback is applied to it.
C33_WrittenAsConfiguredAtCall ==
  \A k \in 1..Len(KarlWrites) :
    ColouredAndEnrichedAs(KarlWrites[k], calls[KarlWrites[k].id].options)

\* C33, amended: the formatter of an event is the one configured when the
\* logging method was invoked, but whether the event is colorized and which
\* enrich callback is applied to it are decided by the configuration in
\* force when its deferred task runs.
C33_ColourAndEnrichAsConfiguredAtEmission ==
  [][(RunLog /\ Len(stdout') > Len(stdout)) =>
       LET w == Last(stdout')
       IN /\ ColouredAndEnrichedAs(w, logOptions)
          /\ w.render.formatter = getFormatter(calls[w.id].options)]_vars

\* A WARN event issued with colorize true and written without colour.
C33_Witness ==
  \E k \in 1..Len(KarlWrites) :
    /\ calls[KarlWrites[k].id].options.colorize
    /\ KarlWrites[k].event.level = "WARN"
    /\ NoEscape(KarlWrites[k].text)


\* The message util.format makes of the arguments of the invocation c when
\* its object argument has the properties object.
MessageWith(c, object) ==
  Head(c.parameters).v \o <<" ">> \o inspect(object)

PassedObject(c) ==
  Len(c.parameters) = 2 /\ c.parameters[2].type = "object"

\* C34, as stated: the message of an emitted event is the expansion of the
\* argument values as they were when the logging method was invoked: an
\* object passed as argument and changed by the caller before the deferred
\* task runs is written in the state it had at the call.
C34_MessageShowsArgumentsAtCall ==
  \A k \in 1..Len(KarlWrites) :
    LET c == calls[KarlWrites[k].id]
    IN PassedObject(c) =>
         KarlWrites[k].event.message.v =
           MessageWith(c, c.heap[c.parameters[2].ref])

\* C34, amended: the message of an emitted event is the expansion of the
\* arguments made when the deferred task runs: an object passed as argument
\* is written in the state it has then, with what the caller changed after
\* the call.
C34_MessageShowsArgumentsAtEmission ==
  [][(RunLog /\ Len(stdout') > Len(stdout)) =>
       LET w == Last(stdout')
           c == calls[w.id]
       IN /\ w.event.message.v = format(c.parameters)
          /\ PassedObject(c) =>
               w.event.message.v = MessageWith(c, heap[c.parameters[2].ref])]_vars

\* An event written with a property value its object got after the call.
C34_Witness ==
  \E k \in 1..Len(KarlWrites) :
    LET c == calls[KarlWrites[k].id]
    IN /\ PassedObject(c)
       /\ c.heap.someObject.a = 1
       /\ KarlWrites[k].event.message.v = MessageWith(c, [a |-> 2])


\* The step is a call of a console method that the console of the runtime
\* serves by writing to stdout.
NativeConsoleWrite ==
  /\ Len(stdout') > Len(stdout)
  /\ Last(stdout').src = "console"

\* The logger events still pending that were issued while the configuration
\* had the console redirected.
PendingFromRedirected ==
  {i \in PendingIds(immediateQueue) : calls[i].options.redirectConsole}

\* C35, as stated: stdout order follows invocation order also across a
\* redirection toggle: when a logger event was issued and the console then
\* restored, a console call made after the restore is not written to stdout
\* before the earlier logger event.
C35_ConsoleCallNotWrittenBeforeEarlierEvent ==
  [][NativeConsoleWrite => PendingFromRedirected = {}]_vars

\* C35, amended: the logger events are written in the order of their
\* invocations, also across a redirection toggle; a console call made after
\* the restore is written at once by the console of the runtime, ahead of
\* every logger event still pending, which stays pending.
C35_LoggerEventsInOrderConsoleCallAtOnce ==
  [][/\ (RunLog /\ Len(stdout') > Len(stdout)) =>
          \A k \in 1..Len(KarlWrites) : KarlWrites[k].id < Last(stdout').id
     /\ NativeConsoleWrite =>
          /\ \E site \in ConsoleSites :
               /\ ConsoleCall(site.method, site.place)
               /\ console[site.method].kind = "native"
               /\ stdout' = Append(stdout, NativeWrite(site.place.parameters))
          /\ immediateQueue' = immediateQueue
          /\ PendingIds(immediateQueue) \cap WrittenIds = {}]_vars

\* A console call made after the restore stands on stdout before the event
\* of a logging call that was issued before the restore.
C35_Witness ==
  /\ ~Redirected
  /\ \E k, j \in 1..Len(stdout) :
       /\ k < j
       /\ stdout[k].src = "console"
       /\ stdout[j].src = "karl"
       /\ calls[stdout[j].id].options.redirectConsole


\* The invocations made by the listener of uncaughtException, and the
\* invocations made before the listener first fired.
HandlerReports == {i \in Ids : calls[i].stack = <<HandlerFrame>>}
BeforeHandler == {i \in Ids : \A f \in HandlerReports : i < f}

OnlyTasksThrew == Cardinality(HandlerReports) = Cardinality(dropped)

\* C37: a failure inside the deferred task of one event affects only that
\* event: when the process is signalled, every other event that was pending
\* has been written, and so has every FATAL event reporting a failure.
C37_TaskFailureAffectsOnlyItsEvent ==
  (status = "SIGINT" /\ OnlyTasksThrew) =>
    /\ \A i \in Ids \ dropped :
         (\E f \in HandlerReports : i < f) => i \in WrittenIds
    /\ \A f \in HandlerReports : Cardinality(WritesOf(f, stdout)) = 1


\* All six console methods are routed to the logger.
AllRouted(con) ==
  \A m \in ConsoleMethods : con[m] = KarlBound(RedirectTarget(m))

\* The state redirectConsole infers for the console con.
InfersRedirected(con) == con["log"] # defaultConsole["log"]

\* C38, as stated: the state redirectConsole infers from the identity of
\* console.log agrees with what the interceptor last did, also when other
\* code rebinds console.log in between: it infers REDIRECTED exactly when
\* console.log is the binding it installed, enabling leaves all six console
\* methods routed to the logger, and disabling replaces only bindings the
\* interceptor installed.
C38_InferredStateAgreesDespiteRebinding ==
  [][/\ InfersRedirected(console') <=> console'["log"].kind = "bound"
     /\ Redirect(TRUE) => AllRouted(console')
     /\ Redirect(FALSE) =>
          \A m \in ConsoleMethods :
            console'[m] # console[m] => console[m].kind = "bound"]_vars

\* C38, amended: while no other code has rebound console.log the inferred
\* state agrees with what the interceptor last did, enabling leaves all six
\* console methods routed to the logger and disabling replaces only bindings
\* the interceptor installed.  Once other code has rebound console.log the
\* interceptor infers REDIRECTED whatever it last did: enabling changes no
\* binding, and disabling puts the saved functions back on all six methods,
\* the one other code installed included.
C38_InferredStateAgreesUnlessRebound ==
  [][/\ console'["log"] # Foreign =>
          (InfersRedirected(console') <=> console'["log"].kind = "bound")
     /\ console'["log"] = Foreign => InfersRedirected(console')
     /\ (Redirect(TRUE) /\ console["log"] # Foreign) => AllRouted(console')
     /\ (Redirect(FALSE) /\ console["log"] # Foreign) =>
          \A m \in ConsoleMethods :
            console'[m] # console[m] => console[m].kind = "bound"
     /\ (Redirect(TRUE) /\ console["log"] = Foreign) => console' = console
     /\ (Redirect(FALSE) /\ console["log"] = Foreign) =>
          \A m \in ConsoleMethods : console'[m] = defaultConsole[m]]_vars

\* Other code rebound console.log while the console was native and the
\* interceptor was then told to enable: no console method is routed to the
\* logger.
C38_Witness ==
  /\ Len(trail) >= 2
  /\ trail[Len(trail) - 1] = "rebind" /\ Last(trail) = "enable"
  /\ console["log"] = Foreign
  /\ \A m \in ConsoleMethods : console[m].kind # "bound"


\* The first of the objects, in the order of the list, that owns the key.
FirstOwner(objects, key) ==
  objects[CHOOSE i \in 1..Len(objects) :
            /\ key \in DOMAIN objects[i]
            /\ \A j \in 1..(i - 1) : key \notin DOMAIN objects[j]]

ArgumentsOf(store, names) == [i \in 1..Len(names) |-> store[names[i]]]

\* C39: extend returns a new object in which every key that one of the
\* arguments owns has the value of the first argument, in argument order,
\* that owns it, and no other key, and it leaves each of its arguments as it
\* was (extend({a: 1}, {a: 2, b: 3}, {c: 4}) is {a: 1, b: 3, c: 4});
\* setOptions, which passes extend the caller's options object and
\* defaultLogOptions, changes neither of the two.
C39_ExtendFirstOwnerWinsNoArgumentChanged ==
  [][/\ \A names \in ArgumentLists :
          Extend(names) =>
            LET objects == ArgumentsOf(heap, names)
                target == heap'[Target]
            IN /\ DOMAIN target =
                    UNION {DOMAIN objects[i] : i \in 1..Len(objects)}
               /\ \A key \in DOMAIN target :
                    target[key] = FirstOwner(objects, key)[key]
               /\ Target \notin DOMAIN heap
               /\ \A n \in DOMAIN heap : heap'[n] = heap[n]
               /\ heap = ExampleStore /\ Len(names) = 3 =>
                    target = [a |-> 1, b |-> 3, c |-> 4]
     /\ ("options" \in DOMAIN heap /\ SetOptions(heap.options)) =>
          /\ heap' = heap
          /\ heap'.defaultLogOptions = defaultLogOptions
          /\ logOptions' =
               extendObjects(heap, <<"options", "defaultLogOptions">>)[Target]]_vars

\* extend was applied to the three objects of its example, the second of
\* which owns a key the first owns too.
C39_Witness ==
  /\ Target \in DOMAIN heap
  /\ "first" \in DOMAIN heap
  /\ heap.first = [a |-> 1] /\ heap.second = [a |-> 2, b |-> 3]
  /\ heap.third = [c |-> 4]
  /\ heap[Target] = [a |-> 1, b |-> 3, c |-> 4]

====
